---------------------------- MODULE Spec2Model ----------------------------
(***************************************************************************)
(* A model of the attestation-based key synchronisation of nitriding:      *)
(* the two attesters (src/attester.go), the key store enclaveKeys          *)
(* (src/metrics.go, second file) and the enclave-internal HTTP handlers    *)
(* (src/handlers.go).                                                      *)
(*                                                                         *)
(* Three groups of state are modelled, each with its own specification:    *)
(*   Spec      attesters, nonce cache, key synchronisation (sequential)    *)
(*   SpecKeys  enclaveKeys under concurrent callers and sync.RWMutex       *)
(*   SpecHttp  the state and hash handlers                                 *)
(***************************************************************************)
EXTENDS Integers, Sequences, FiniteSets, TLC

(***************************************************************************)
(* Byte strings.  A Go []byte is either nil or a (possibly empty) sequence *)
(* of bytes; the two are different values (x != nil) with equal contents.  *)
(***************************************************************************)
NilBytes == [nil |-> TRUE, b |-> <<>>]

Bytes(s) == [nil |-> FALSE, b |-> s]

\* bytes.Equal: contents only, so a nil and an empty slice are equal.
BytesEqual(x, y) == x.b = y.b

\* n copies of the byte v.
Fill(n, v) == [i \in 1..n |-> v]

(***************************************************************************)
(* Text.  A string is a sequence of characters; a character is the index   *)
(* 0..63 of a symbol of the standard Base64 alphabet, or one of the        *)
(* characters below.                                                       *)
(***************************************************************************)
PadChar == 64

\* '\n': white space for strings.TrimSpace, skipped by the Base64 decoder.
NewlineChar == 65

\* A character outside the Base64 alphabet that is no white space ('!').
BadChar == 66

\* encoding/base64: the number of characters n bytes encode to.
EncodedLen(n) == ((n + 2) \div 3) * 4

\* base64.StdEncoding.EncodeToString
RECURSIVE B64Encode(_)
B64Encode(s) ==
    IF Len(s) = 0 THEN <<>>
    ELSE IF Len(s) = 1 THEN
        << s[1] \div 4, (s[1] % 4) * 16, PadChar, PadChar >>
    ELSE IF Len(s) = 2 THEN
        << s[1] \div 4, (s[1] % 4) * 16 + (s[2] \div 16),
           (s[2] % 16) * 4, PadChar >>
    ELSE << s[1] \div 4, (s[1] % 4) * 16 + (s[2] \div 16),
            (s[2] % 16) * 4 + (s[3] \div 64), s[3] % 64 >>
         \o B64Encode(SubSeq(s, 4, Len(s)))

\* The text s without the characters the decoder skips ('\r', '\n').
RECURSIVE DropNewlines(_)
DropNewlines(s) ==
    IF Len(s) = 0 THEN <<>>
    ELSE IF s[1] = NewlineChar THEN DropNewlines(Tail(s))
    ELSE <<s[1]>> \o DropNewlines(Tail(s))

IsSextet(c) == c \in 0..63

\* The bytes of full quantums (4 alphabet characters each), s a sequence of
\* alphabet characters whose length is a multiple of 4.
RECURSIVE DecodeQuads(_)
DecodeQuads(s) ==
    IF Len(s) = 0 THEN <<>>
    ELSE << s[1] * 4 + (s[2] \div 16),
            (s[2] % 16) * 16 + (s[3] \div 4),
            (s[3] % 4) * 64 + s[4] >>
         \o DecodeQuads(SubSeq(s, 5, Len(s)))

BadText == [ok |-> FALSE, b |-> <<>>]

\* The last quantum q after the bytes of the ones before it: four alphabet
\* characters, or three or two of them and padding.
DecodeLast(head, q) ==
    IF \A i \in 1..4 : IsSextet(q[i])
    THEN [ok |-> TRUE, b |-> head \o DecodeQuads(q)]
    ELSE IF IsSextet(q[1]) /\ IsSextet(q[2]) /\ IsSextet(q[3])
            /\ q[4] = PadChar
    THEN [ok |-> TRUE,
          b |-> head \o << q[1] * 4 + (q[2] \div 16),
                           (q[2] % 16) * 16 + (q[3] \div 4) >>]
    ELSE IF IsSextet(q[1]) /\ IsSextet(q[2]) /\ q[3] = PadChar
            /\ q[4] = PadChar
    THEN [ok |-> TRUE, b |-> head \o << q[1] * 4 + (q[2] \div 16) >>]
    ELSE BadText

\* The text s, newlines dropped.  Padding is required and may only end the
\* input, whose length is a multiple of 4.
DecodeClean(s) ==
    IF Len(s) % 4 # 0 THEN BadText
    ELSE IF Len(s) = 0 THEN [ok |-> TRUE, b |-> <<>>]
    ELSE IF \E i \in 1..(Len(s) - 4) : ~IsSextet(s[i]) THEN BadText
    ELSE DecodeLast(DecodeQuads(SubSeq(s, 1, Len(s) - 4)),
                    SubSeq(s, Len(s) - 3, Len(s)))

\* base64.StdEncoding.DecodeString: [ok, b].
B64Decode(text) == DecodeClean(DropNewlines(text))

(***************************************************************************)
(* Nonces and auxiliary information (src/attester.go, lines 22-49).        *)
(***************************************************************************)
\* The length of a nonce.  A nonce is a fixed-length byte array.
nonceLen == 20

\* How many distinct nonces the nonce cache can issue in one behaviour.
MaxNonces == 2

NonceIds == 1..MaxNonces

\* The nonce whose bytes all are i; the zero value of the type is Nonce(0).
Nonce(i) == Fill(nonceLen, i)

Nonces == { Nonce(i) : i \in NonceIds }

\* nonce.B64: the Base64 text under which a nonce is cached and looked up.
B64(n) == B64Encode(n)

\* A conversion []byte -> nonce (a slice to an array): the first nonceLen
\* bytes; it panics when the slice is shorter.
ToNonce(bytes) ==
    IF Len(bytes.b) < nonceLen THEN [panic |-> TRUE, n |-> Nonce(0)]
    ELSE [panic |-> FALSE, n |-> SubSeq(bytes.b, 1, nonceLen)]

\* workerAuxInfo; ptr tells a *workerAuxInfo from a workerAuxInfo.
WorkerAux(wn, ln, pk, ptr) ==
    [shape |-> "worker", ptr |-> ptr, WorkersNonce |-> wn,
     LeadersNonce |-> ln, PublicKey |-> pk]

\* leaderAuxInfo
LeaderAux(wn, ek, ptr) ==
    [shape |-> "leader", ptr |-> ptr, WorkersNonce |-> wn, EnclaveKeys |-> ek]

\* The nil auxInfo an attester returns beside an error.
NoAux == [shape |-> "nil", ptr |-> FALSE]

(***************************************************************************)
(* The key bundle enclaveKeys (src/metrics.go, lines 96-101) without its   *)
(* lock, and the bytes a leader sends for it.                              *)
(***************************************************************************)
Bundle(k, c, a) == [NitridingKey |-> k, NitridingCert |-> c, AppKeys |-> a]

\* The zero value: the key store of a fresh enclave.
EmptyKeys == Bundle(NilBytes, NilBytes, NilBytes)

\* One field of the serialised bundle: 0 for nil, else 1 + its length and its bytes.
EncodeField(x) == IF x.nil THEN <<0>> ELSE <<Len(x.b) + 1>> \o x.b

\* The serialised bundle a leader puts into leaderAuxInfo.EnclaveKeys.
EncodeKeys(k) ==
    EncodeField(k.NitridingKey) \o EncodeField(k.NitridingCert)
        \o EncodeField(k.AppKeys)

\* Reads one field off s: [ok, v, rest].
DecodeField(s) ==
    IF Len(s) = 0 THEN [ok |-> FALSE, v |-> NilBytes, rest |-> <<>>]
    ELSE IF s[1] = 0 THEN [ok |-> TRUE, v |-> NilBytes, rest |-> Tail(s)]
    ELSE IF Len(s) < s[1] THEN [ok |-> FALSE, v |-> NilBytes, rest |-> <<>>]
    ELSE [ok |-> TRUE, v |-> Bytes(SubSeq(s, 2, s[1])),
          rest |-> SubSeq(s, s[1] + 1, Len(s))]

\* The bundle of three fields read one after the other.
DecodedKeys(f1, f2, f3) ==
    IF f1.ok /\ f2.ok /\ f3.ok /\ f3.rest = <<>>
    THEN [ok |-> TRUE, keys |-> Bundle(f1.v, f2.v, f3.v)]
    ELSE [ok |-> FALSE, keys |-> EmptyKeys]

DecodeSecond(f1, f2) == DecodedKeys(f1, f2, DecodeField(f2.rest))

DecodeFirst(f1) == DecodeSecond(f1, DecodeField(f1.rest))

\* The bundle a worker recovers from EnclaveKeys: [ok, keys].
DecodeKeys(bytes) == DecodeFirst(DecodeField(bytes.b))

(***************************************************************************)
(* JSON, as far as encoding/json is used on the two auxInfo structs.  A    *)
(* document of the dummy attester is a JSON text; it is kept here in       *)
(* parsed form, an object of the four known members, each absent, null,    *)
(* a string or an array of numbers.                                        *)
(***************************************************************************)
JAbsent == [t |-> "absent", v |-> <<>>]

JNull == [t |-> "null", v |-> <<>>]

JStr(text) == [t |-> "str", v |-> text]

JArr(nums) == [t |-> "arr", v |-> nums]

JObj(wn, ln, pk, ek) ==
    [kind |-> "json", workers_nonce |-> wn, leaders_nonce |-> ln,
     public_key |-> pk, enclave_keys |-> ek]

\* A byte sequence that is no JSON text (and no attestation document).
Garbage == [kind |-> "garbage"]

\* json.Marshal of a []byte: null for nil, else its Base64 text.
MarshalBytes(x) == IF x.nil THEN JNull ELSE JStr(B64Encode(x.b))

\* json.Marshal of a nonce, a byte array: an array of numbers.
MarshalNonce(n) == JArr(n)

\* A Base64 text decoded into a []byte.
DecodedBytes(d) ==
    IF d.ok THEN [ok |-> TRUE, v |-> Bytes(d.b)]
    ELSE [ok |-> FALSE, v |-> NilBytes]

\* json.Unmarshal into a []byte that is nil: [ok, v].
UnmarshalBytes(j) ==
    CASE j.t = "absent" -> [ok |-> TRUE, v |-> NilBytes]
      [] j.t = "null"   -> [ok |-> TRUE, v |-> NilBytes]
      [] j.t = "arr"    -> [ok |-> TRUE, v |-> Bytes(j.v)]
      [] OTHER -> DecodedBytes(B64Decode(j.v))

\* json.Unmarshal into a zeroed nonce: a shorter array leaves the rest
\* zero, the elements beyond nonceLen are dropped; a string is an error.
UnmarshalNonce(j) ==
    CASE j.t = "absent" -> [ok |-> TRUE, v |-> Nonce(0)]
      [] j.t = "null"   -> [ok |-> TRUE, v |-> Nonce(0)]
      [] j.t = "arr"    ->
           [ok |-> TRUE,
            v |-> [i \in 1..nonceLen |-> IF i <= Len(j.v) THEN j.v[i] ELSE 0]]
      [] OTHER -> [ok |-> FALSE, v |-> Nonce(0)]


(***************************************************************************)
(* The nonce cache behind the predicate isOurNonce that the callers of     *)
(* verifyAttstn pass: a set of the Base64 texts of the outstanding nonces. *)
(***************************************************************************)
\* consume: check and remove; [ok, cache].
consume(cache, text) == [ok |-> text \in cache, cache |-> cache \ {text}]

\* What verifyAttstn hands back: the auxInfo and the error ("" is nil), the
\* texts it passed to isOurNonce in order, the cache the predicate left, and
\* whether the call panicked instead of returning.
Outcome(aux, err, asked, cache) ==
    [aux |-> aux, err |-> err, asked |-> asked, cache |-> cache,
     panic |-> FALSE]

Panicked(asked, cache) ==
    [aux |-> NoAux, err |-> "", asked |-> asked, cache |-> cache,
     panic |-> TRUE]

(***************************************************************************)
(* dummyAttester (src/attester.go, lines 51-88).                           *)
(***************************************************************************)
\* json.Marshal(aux): the struct behind a pointer is marshalled alike.
dummyCreateAttstn(aux) ==
    CASE aux.shape = "worker" ->
           [doc |-> JObj(MarshalNonce(aux.WorkersNonce),
                         MarshalNonce(aux.LeadersNonce),
                         MarshalBytes(aux.PublicKey), JAbsent),
            err |-> ""]
      [] aux.shape = "leader" ->
           [doc |-> JObj(MarshalNonce(aux.WorkersNonce), JAbsent, JAbsent,
                         MarshalBytes(aux.EnclaveKeys)),
            err |-> ""]
      [] OTHER -> [doc |-> JObj(JAbsent, JAbsent, JAbsent, JAbsent),
                   err |-> ""]

WorkerFields(wn, ln, pk) ==
    [ok |-> wn.ok /\ ln.ok /\ pk.ok, v |-> WorkerAux(wn.v, ln.v, pk.v, TRUE)]

LeaderFields(wn, ek) ==
    [ok |-> wn.ok /\ ek.ok, v |-> LeaderAux(wn.v, ek.v, TRUE)]

\* json.Unmarshal(doc, &w): [ok, v]
UnmarshalWorker(doc) ==
    IF doc.kind # "json" THEN [ok |-> FALSE, v |-> NoAux]
    ELSE WorkerFields(UnmarshalNonce(doc.workers_nonce),
                      UnmarshalNonce(doc.leaders_nonce),
                      UnmarshalBytes(doc.public_key))

\* json.Unmarshal(doc, &l): [ok, v]
UnmarshalLeader(doc) ==
    IF doc.kind # "json" THEN [ok |-> FALSE, v |-> NoAux]
    ELSE LeaderFields(UnmarshalNonce(doc.workers_nonce),
                      UnmarshalBytes(doc.enclave_keys))

\* IsWorkerShape asking for a key that is not empty, instead of not nil.
IsWorkerShapeNonEmpty(w) ==
    /\ Len(w.WorkersNonce) = nonceLen
    /\ Len(w.LeadersNonce) = nonceLen
    /\ Len(w.PublicKey.b) > 0

\* The test of line 67.
IsWorkerShape(w) ==
    /\ Len(w.WorkersNonce) = nonceLen
    /\ Len(w.LeadersNonce) = nonceLen
    /\ ~w.PublicKey.nil

\* The test of line 79.
IsLeaderShape(l) ==
    /\ Len(l.WorkersNonce) = nonceLen
    /\ ~l.EnclaveKeys.nil

\* CheckedNonce with the predicate's answer ignored.
CheckedNonceIgnored(aux, text, c, err) == Outcome(aux, "", <<text>>, c.cache)

\* if !isOurNonce(text) { return nil, err }; return &aux, nil
\* c is what the predicate answered and left.
CheckedNonce(aux, text, c, err) ==
    IF ~c.ok THEN Outcome(NoAux, err, <<text>>, c.cache)
    ELSE Outcome(aux, "", <<text>>, c.cache)

\* Lines 67-73, w decoded.
dummyVerifyWorker(w, text, cache) ==
    CheckedNonce(w, text, consume(cache, text), "leader nonce not in cache")

\* Lines 76-87, l the result of the second json.Unmarshal.
dummyVerifyLeader(l, text, cache) ==
    IF ~l.ok THEN Outcome(NoAux, "unmarshal", <<>>, cache)
    ELSE IF IsLeaderShape(l.v)
    THEN CheckedNonce(l.v, text, consume(cache, text),
                      "worker nonce not in cache")
    ELSE Outcome(NoAux, "invalid auxiliary information", <<>>, cache)

\* Lines 60-88, w the result of the first json.Unmarshal.
dummyVerifyDecoded(doc, w, cache) ==
    IF ~w.ok THEN Outcome(NoAux, "unmarshal", <<>>, cache)
    ELSE IF IsWorkerShape(w.v)
    THEN dummyVerifyWorker(w.v, B64(w.v.LeadersNonce), cache)
    ELSE dummyVerifyLeader(UnmarshalLeader(doc),
                           B64(UnmarshalLeader(doc).v.WorkersNonce), cache)

dummyVerifyAttstn(doc, cache) ==
    dummyVerifyDecoded(doc, UnmarshalWorker(doc), cache)

(***************************************************************************)
(* nitroAttester (src/attester.go, lines 90-173).  An attestation document *)
(* is kept as what nitrite.Verify makes of it: whether its signature and   *)
(* validity window check out, its PCRs and its three free fields.          *)
(***************************************************************************)
NitroDoc(auth, pcrs, nonce, userData, publicKey) ==
    [kind |-> "nitro", auth |-> auth, PCRs |-> pcrs, Nonce |-> nonce,
     UserData |-> userData, PublicKey |-> publicKey]

\* The measurement registers of this enclave's image.
OurPCRs == (0 :> <<1, 1>>) @@ (1 :> <<2, 2>>)

\* Another image: one register differs.
OtherPCRs == (0 :> <<1, 1>>) @@ (1 :> <<2, 3>>)

\* Registers missing.
FewerPCRs == (0 :> <<1, 1>>)

\* Bit-exact equality of two register maps.
arePCRsIdentical(ours, theirs) ==
    /\ DOMAIN ours = DOMAIN theirs
    /\ \A i \in DOMAIN ours : ours[i] = theirs[i]

\* Lines 118-130: what the NSM device makes of the three fields; nsm is how
\* it behaves, "ok" or the step that fails.
Attest(nsm, nonce, userData, publicKey) ==
    IF nsm = "ok"
    THEN [doc |-> NitroDoc("ok", OurPCRs, nonce, userData, publicKey),
          err |-> ""]
    ELSE [doc |-> Garbage, err |-> nsm]

\* nitroCreateAttstn refusing what is neither of the two struct values.
nitroCreateStrict(aux, nsm) ==
    IF aux.shape = "worker" /\ ~aux.ptr
    THEN Attest(nsm, Bytes(aux.WorkersNonce), Bytes(aux.LeadersNonce),
                aux.PublicKey)
    ELSE IF aux.shape = "leader" /\ ~aux.ptr
    THEN Attest(nsm, Bytes(aux.WorkersNonce), aux.EnclaveKeys, NilBytes)
    ELSE [doc |-> Garbage, err |-> "invalid auxiliary information"]

\* The type switch of lines 98-106 matches values, not pointers.
nitroCreateAttstn(aux, nsm) ==
    IF aux.shape = "worker" /\ ~aux.ptr
    THEN Attest(nsm, Bytes(aux.WorkersNonce), Bytes(aux.LeadersNonce),
                aux.PublicKey)
    ELSE IF aux.shape = "leader" /\ ~aux.ptr
    THEN Attest(nsm, Bytes(aux.WorkersNonce), aux.EnclaveKeys, NilBytes)
    ELSE Attest(nsm, NilBytes, NilBytes, NilBytes)

\* Lines 160-172: the auxInfo built from the document's fields; wn and ln
\* are the conversions of Nonce and UserData to a nonce.
nitroAuxInfo(doc, wn, ln, asked, cache) ==
    IF ~doc.PublicKey.nil THEN
        IF wn.panic \/ ln.panic THEN Panicked(asked, cache)
        ELSE Outcome(WorkerAux(wn.n, ln.n, doc.PublicKey, TRUE), "", asked,
                     cache)
    ELSE IF wn.panic THEN Panicked(asked, cache)
    ELSE Outcome(LeaderAux(wn.n, doc.UserData, TRUE), "", asked, cache)

\* Lines 153-172; c is what isOurNonce answered and left.
nitroCheckNonce(doc, b64Nonce, c) ==
    IF ~c.ok THEN Outcome(NoAux, "nonce not in cache", <<b64Nonce>>, c.cache)
    ELSE nitroAuxInfo(doc, ToNonce(doc.Nonce), ToNonce(doc.UserData),
                      <<b64Nonce>>, c.cache)

\* nitroVerifyAttstn without the comparison of the PCRs.
nitroVerifyNoPCRs(doc, cache, pcr) ==
    IF doc.kind # "nitro" \/ doc.auth # "ok"
    THEN Outcome(NoAux, "verify", <<>>, cache)
    ELSE nitroCheckNonce(doc, B64Encode(doc.Nonce.b),
                         consume(cache, B64Encode(doc.Nonce.b)))

\* The checks after the nonce's, c what isOurNonce answered and left.
nitroPCRsLast(doc, b64Nonce, c, pcr) ==
    IF ~c.ok THEN Outcome(NoAux, "nonce not in cache", <<b64Nonce>>, c.cache)
    ELSE IF ~pcr.ok THEN Outcome(NoAux, "getPCRValues", <<b64Nonce>>, c.cache)
    ELSE IF ~arePCRsIdentical(pcr.v, doc.PCRs)
    THEN Outcome(NoAux, "PCR values not identical", <<b64Nonce>>, c.cache)
    ELSE nitroAuxInfo(doc, ToNonce(doc.Nonce), ToNonce(doc.UserData),
                      <<b64Nonce>>, c.cache)

\* nitroVerifyAttstn with the nonce checked before the PCRs.
nitroVerifyNonceFirst(doc, cache, pcr) ==
    IF doc.kind # "nitro" \/ doc.auth # "ok"
    THEN Outcome(NoAux, "verify", <<>>, cache)
    ELSE nitroPCRsLast(doc, B64Encode(doc.Nonce.b),
                       consume(cache, B64Encode(doc.Nonce.b)), pcr)

\* pcr is what getPCRValues returns: [ok, v].
nitroVerifyAttstn(doc, cache, pcr) ==
    IF doc.kind # "nitro" \/ doc.auth # "ok"
    THEN Outcome(NoAux, "verify", <<>>, cache)
    ELSE IF ~pcr.ok THEN Outcome(NoAux, "getPCRValues", <<>>, cache)
    ELSE IF ~arePCRsIdentical(pcr.v, doc.PCRs)
    THEN Outcome(NoAux, "PCR values not identical", <<>>, cache)
    ELSE nitroCheckNonce(doc, B64Encode(doc.Nonce.b),
                         consume(cache, B64Encode(doc.Nonce.b)))

\* The attester interface: the implementation chosen at start.
createAttstn(impl, aux, nsm) ==
    IF impl = "dummy" THEN dummyCreateAttstn(aux)
    ELSE nitroCreateAttstn(aux, nsm)

verifyAttstn(impl, doc, cache, pcr) ==
    IF impl = "dummy" THEN dummyVerifyAttstn(doc, cache)
    ELSE nitroVerifyAttstn(doc, cache, pcr)


(***************************************************************************)
(* enclaveKeys (src/metrics.go, lines 96-154): what each method does to    *)
(* the bundle once it holds the lock.                                      *)
(***************************************************************************)
\* equal without the comparison of the application's keys.
equalWithoutAppKeys(e1, e2) ==
    /\ BytesEqual(e1.NitridingCert, e2.NitridingCert)
    /\ BytesEqual(e1.NitridingKey, e2.NitridingKey)

equal(e1, e2) ==
    /\ BytesEqual(e1.NitridingCert, e2.NitridingCert)
    /\ BytesEqual(e1.NitridingKey, e2.NitridingKey)
    /\ BytesEqual(e1.AppKeys, e2.AppKeys)

setAppKeys(e, appKeys) == [e EXCEPT !.AppKeys = appKeys]

setNitridingKeys(e, key, cert) ==
    [e EXCEPT !.NitridingKey = key, !.NitridingCert = cert]

set(e, newKeys) ==
    [e EXCEPT !.NitridingKey = newKeys.NitridingKey,
              !.NitridingCert = newKeys.NitridingCert,
              !.AppKeys = newKeys.AppKeys]

get(e) == Bundle(e.NitridingKey, e.NitridingCert, e.AppKeys)

getAppKeys(e) == e.AppKeys

(***************************************************************************)
(* The inputs of the attestation model.                                    *)
(***************************************************************************)
KeyA == Bundle(Bytes(<<1>>), Bytes(<<2>>), Bytes(<<3>>))

KeyB == Bundle(Bytes(<<4>>), Bytes(<<5, 5>>), NilBytes)

\* The bytes of a key bundle as a leader sends them.
Wire(k) == Bytes(EncodeKeys(k))

\* What the callers of createAttstn pass: well-formed worker and leader
\* values, and values that lack the key or the bundle.
AuxUniverse ==
    { WorkerAux(wn, ln, pk, FALSE) :
          wn \in Nonces, ln \in Nonces, pk \in {Bytes(<<7, 8>>), NilBytes} }
    \cup { WorkerAux(Nonce(1), Nonce(1), Bytes(<<>>), FALSE) }
    \cup { LeaderAux(wn, ek, FALSE) :
          wn \in Nonces, ek \in {Wire(KeyA), NilBytes} }
    \cup { LeaderAux(Nonce(1), ek, FALSE) : ek \in {Wire(KeyB), Bytes(<<>>)} }

ValidAux ==
    { a \in AuxUniverse :
        IF a.shape = "worker" THEN ~a.PublicKey.nil ELSE ~a.EnclaveKeys.nil }

\* Documents a peer can send to a dummy attester besides those created here:
\* no JSON, an empty object, a member of the wrong type, a bundle that is no
\* Base64, a nonce array that is too short, a member of each struct, and a
\* leader's document whose bundle does not decode.
DummyForged ==
    { Garbage,
      JObj(JAbsent, JAbsent, JAbsent, JAbsent),
      JObj(JStr(<<>>), JAbsent, JAbsent, JNull),
      JObj(JArr(Nonce(1)), JAbsent, JAbsent, JStr(<<BadChar>>)),
      JObj(JArr(<<1>>), JAbsent, JAbsent, JStr(B64Encode(EncodeKeys(KeyA)))),
      JObj(JArr(Nonce(1)), JArr(Nonce(1)), JStr(B64Encode(<<7, 8>>)),
           JStr(B64Encode(EncodeKeys(KeyB)))),
      JObj(JArr(Nonce(1)), JAbsent, JAbsent, JStr(B64Encode(<<9>>))) }

\* Documents a peer can send to a nitro attester: a bad signature, an
\* expired document, other images, and free fields of every length.
NitroForged ==
    { Garbage,
      NitroDoc("signature", OurPCRs, Bytes(Nonce(1)), Wire(KeyA), NilBytes),
      NitroDoc("expired", OurPCRs, Bytes(Nonce(1)), Wire(KeyA), NilBytes),
      NitroDoc("ok", OtherPCRs, Bytes(Nonce(1)), Wire(KeyA), NilBytes),
      NitroDoc("ok", FewerPCRs, Bytes(Nonce(1)), Wire(KeyA), NilBytes),
      NitroDoc("ok", OurPCRs, Bytes(Nonce(1)), Bytes(<<1>>), Bytes(<<7, 8>>)),
      NitroDoc("ok", OurPCRs, Bytes(Nonce(1)), NilBytes, Bytes(<<7, 8>>)),
      NitroDoc("ok", OurPCRs, Bytes(Nonce(1)), Bytes(<<9>>), NilBytes),
      NitroDoc("ok", OurPCRs, NilBytes, Wire(KeyA), NilBytes),
      NitroDoc("ok", OurPCRs, Bytes(Fill(nonceLen - 1, 1)), Wire(KeyA),
               NilBytes),
      NitroDoc("ok", OurPCRs, Bytes(Fill(nonceLen + 1, 1)), Wire(KeyA),
               NilBytes) }

\* The documents that can reach verifyAttstn: those createAttstn makes of
\* the values above, and the forged ones.
Documents(impl) ==
    { createAttstn(impl, a, "ok").doc : a \in AuxUniverse }
    \cup (IF impl = "dummy" THEN DummyForged ELSE NitroForged)

PCRsOK == [ok |-> TRUE, v |-> OurPCRs]

PCRsFail == [ok |-> FALSE, v |-> <<>>]

\* createAttstn's inputs <<aux, nsm>>: nsm is how the NSM device behaves,
\* which the dummy attester does not use.
CreateInputs(impl) ==
    { <<a, "ok">> : a \in AuxUniverse }
    \cup (IF impl = "dummy" THEN {}
          ELSE { <<LeaderAux(Nonce(1), Wire(KeyA), FALSE), f>> :
                     f \in {"open", "send", "no attestation"} }
               \cup { <<WorkerAux(Nonce(1), Nonce(2), Bytes(<<7, 8>>), TRUE),
                        "ok">>,
                      <<LeaderAux(Nonce(1), Wire(KeyA), TRUE), "ok">>,
                      <<NoAux, "ok">> })

\* verifyAttstn's inputs <<doc, pcr>>: pcr is what getPCRValues returns,
\* which the dummy attester does not call.
VerifyInputs(impl) ==
    { <<d, PCRsOK>> : d \in Documents(impl) }
    \cup (IF impl = "dummy" THEN {}
          ELSE { <<createAttstn(impl, LeaderAux(n, Wire(KeyA), FALSE),
                                "ok").doc, PCRsFail>> : n \in Nonces })

\* A sync request: the 'addr' parameter ("absent", "malformed" when
\* url.Parse fails, or "url"), the nonce the worker draws, how the transport
\* fares, the document the leader answers with and what getPCRValues
\* returns.
SyncRequest(addr, n, transport, doc, pcr) ==
    [addr |-> addr, n |-> n, transport |-> transport, doc |-> doc,
     pcr |-> pcr]

\* What a leader, or who answers in its place, sends back: a leader's
\* document for a nonce and a bundle, a bundle that does not decode, a
\* worker's document, and the forged documents that fail each check.
SyncAnswers(impl) ==
    { <<createAttstn(impl, LeaderAux(n, ek, FALSE), "ok").doc, PCRsOK>> :
          n \in Nonces, ek \in {Wire(KeyA), Wire(KeyB), Bytes(<<9>>)} }
    \cup { <<createAttstn(impl, WorkerAux(n, n, Bytes(<<7, 8>>), FALSE),
                          "ok").doc, PCRsOK>> : n \in Nonces }
    \cup (IF impl = "dummy"
          THEN { <<Garbage, PCRsOK>> }
          ELSE { <<NitroDoc("signature", OurPCRs, Bytes(Nonce(1)),
                            Wire(KeyA), NilBytes), PCRsOK>>,
                 <<NitroDoc("ok", OtherPCRs, Bytes(Nonce(1)), Wire(KeyA),
                            NilBytes), PCRsOK>>,
                 <<NitroDoc("ok", OurPCRs, Bytes(Nonce(1)), Wire(KeyA),
                            NilBytes), PCRsFail>>,
                 <<NitroDoc("ok", OurPCRs, Bytes(Nonce(1)), Bytes(<<1>>),
                            Bytes(<<7, 8>>)), PCRsOK>> })

SyncInputs(impl) ==
    { SyncRequest(a, Nonce(1), "ok", Garbage, PCRsOK) :
          a \in {"absent", "malformed"} }
    \cup { SyncRequest("url", n, "transport error", Garbage, PCRsOK) :
               n \in Nonces }
    \cup { SyncRequest("url", n, "ok", i[1], i[2]) :
               n \in Nonces, i \in SyncAnswers(impl) }

(***************************************************************************)
(* The state of the attestation model.                                     *)
(***************************************************************************)
VARIABLES
    att,        \* the attester in use: "dummy" or "nitro"
    cache,      \* the nonce cache: the Base64 texts of outstanding nonces
    issued,     \* every nonce issued so far
    accepts,    \* per nonce text, the verifications that succeeded on it
    keys,       \* the enclave's key store
    last        \* the last operation, its inputs and its results

attVars == <<att, cache, issued, accepts, keys, last>>

NonceTexts == { B64(n) : n \in Nonces }

\* The counts of successes stop here.
MaxCount == 2

\* Counts a success on the nonce text the call asked for.
Count(acc, res) ==
    IF res.err = "" /\ ~res.panic /\ Len(res.asked) > 0
       /\ res.asked[Len(res.asked)] \in DOMAIN acc
    THEN [acc EXCEPT ![res.asked[Len(res.asked)]] =
              IF @ < MaxCount THEN @ + 1 ELSE @]
    ELSE acc

AttInit ==
    /\ att \in {"dummy", "nitro"}
    /\ cache = {}
    /\ issued = {}
    /\ accepts = [t \in NonceTexts |-> 0]
    /\ keys \in {EmptyKeys, KeyA}
    /\ last = [op |-> "init"]

\* NonceCache.issue: a nonce never issued before becomes outstanding.
Issue(n) ==
    /\ n \in Nonces \ issued
    /\ cache' = cache \cup {B64(n)}
    /\ issued' = issued \cup {n}
    /\ last' = [op |-> "issue", nonce |-> n]
    /\ UNCHANGED <<att, accepts, keys>>

\* The cache drops an outstanding nonce whose time to live is over.
Evict(t) ==
    /\ t \in cache
    /\ cache' = cache \ {t}
    /\ last' = [op |-> "evict", text |-> t]
    /\ UNCHANGED <<att, issued, accepts, keys>>

Created(aux, nsm, r) ==
    /\ last' = [op |-> "create", aux |-> aux, nsm |-> nsm, doc |-> r.doc,
                err |-> r.err]
    /\ UNCHANGED <<att, cache, issued, accepts, keys>>

Create(aux, nsm) == Created(aux, nsm, createAttstn(att, aux, nsm))

VerifyDone(doc, pcr, r) ==
    /\ cache' = r.cache
    /\ accepts' = Count(accepts, r)
    /\ last' = [op |-> "verify", doc |-> doc, pcr |-> pcr, before |-> cache,
                res |-> r]
    /\ UNCHANGED <<att, issued, keys>>

Verify(doc, pcr) == VerifyDone(doc, pcr, verifyAttstn(att, doc, cache, pcr))

(***************************************************************************)
(* Key synchronisation: RequestKeys, the worker's side of the handshake,   *)
(* and the handler that starts it (src/handlers.go, lines 57-81).          *)
(***************************************************************************)
StatusOK == 200

StatusBadRequest == 400

StatusInternalServerError == 500

\* No status line was written: the handler's goroutine panicked.
NoStatus == 0

\* What RequestKeys leaves: the error ("" is nil), whether it panicked, the
\* nonce cache, the key store and the verification's outcome.
SyncResult(err, panic, c, k, res) ==
    [err |-> err, panic |-> panic, cache |-> c, keys |-> k, res |-> res]

\* Step 5: the bundle d decoded from the leader's document is installed
\* unless the store holds it already.
Install(k, d, r) ==
    IF ~d.ok THEN SyncResult("malformed keys", FALSE, r.cache, k, r)
    ELSE IF equal(k, d.keys) THEN SyncResult("", FALSE, r.cache, k, r)
    ELSE SyncResult("", FALSE, r.cache, set(k, d.keys), r)

\* Steps 4 and 5, r the outcome of verifyAttstn.
Verified(k, r) ==
    IF r.panic THEN SyncResult("", TRUE, r.cache, k, r)
    ELSE IF r.err # "" THEN SyncResult(r.err, FALSE, r.cache, k, r)
    ELSE IF r.aux.shape # "leader"
    THEN SyncResult("not a leader's document", FALSE, r.cache, k, r)
    ELSE Install(k, DecodeKeys(r.aux.EnclaveKeys), r)

\* The worker issues the nonce n, asks the leader at the address, verifies
\* the document the leader answers with and installs the bundle in it.
RequestKeys(impl, c, k, n, transport, doc, pcr) ==
    IF transport # "ok"
    THEN SyncResult(transport, FALSE, c \cup {B64(n)}, k,
                    Outcome(NoAux, "not run", <<>>, c \cup {B64(n)}))
    ELSE Verified(k, verifyAttstn(impl, doc, c \cup {B64(n)}, pcr))

\* SyncStatus without the test of RequestKeys' error.
SyncStatusNoTest(s) == StatusOK

\* The status reqSyncHandler answers with once RequestKeys is through.
SyncStatus(s) ==
    IF s.panic THEN NoStatus
    ELSE IF s.err # "" THEN StatusInternalServerError
    ELSE StatusOK

SyncRecord(req, called, s, status, before) ==
    [op |-> "sync", req |-> req, called |-> called, err |-> s.err,
     panic |-> s.panic, res |-> s.res, status |-> status, before |-> before]

\* Lines 75-79, s what RequestKeys left.
SyncDone(req, s) ==
    /\ issued' = issued \cup {req.n}
    /\ cache' = s.cache
    /\ keys' = s.keys
    /\ accepts' = Count(accepts, s.res)
    /\ last' = SyncRecord(req, TRUE, s, SyncStatus(s), keys)
    /\ UNCHANGED att

\* Lines 62-73: no RequestKeys without a well-formed 'addr'.
SyncRefused(req) ==
    /\ last' = SyncRecord(req, FALSE,
                          SyncResult("", FALSE, cache, keys,
                                     Outcome(NoAux, "not run", <<>>, cache)),
                          StatusBadRequest, keys)
    /\ UNCHANGED <<att, cache, issued, accepts, keys>>

reqSyncHandler(req) ==
    \/ /\ req.addr = "absent"
       /\ SyncRefused(req)
    \/ /\ req.addr = "malformed"
       /\ SyncRefused(req)
    \/ /\ req.addr = "url"
       /\ req.n \in Nonces \ issued
       /\ SyncDone(req, RequestKeys(att, cache, keys, req.n, req.transport,
                                    req.doc, req.pcr))

(***************************************************************************)
(* enclaveKeys under concurrent callers (src/metrics.go, lines 96-154).    *)
(* Each method is the sequence of its steps: taking and releasing the      *)
(* embedded sync.RWMutex, and reading or writing one field.  A step names  *)
(* the store it locks ("recv" the receiver, "arg" the argument of equal)   *)
(* or the field it reads or writes.                                        *)
(***************************************************************************)
I(op, x) == [op |-> op, x |-> x]

\* getProgram without the lock.
getUnlocked ==
    << I("read", "NitridingKey"), I("read", "NitridingCert"),
       I("read", "AppKeys") >>

\* setProgram leaving the application's keys alone.
setWithoutAppKeys ==
    << I("Lock", "recv"), I("write", "NitridingKey"),
       I("write", "NitridingCert"), I("Unlock", "recv") >>

equalProgram ==
    << I("RLock", "recv"), I("RLock", "arg"), I("compare", ""),
       I("RUnlock", "arg"), I("RUnlock", "recv") >>

setAppKeysProgram ==
    << I("Lock", "recv"), I("write", "AppKeys"), I("Unlock", "recv") >>

setNitridingKeysProgram ==
    << I("Lock", "recv"), I("write", "NitridingKey"),
       I("write", "NitridingCert"), I("Unlock", "recv") >>

setProgram ==
    << I("Lock", "recv"), I("write", "NitridingKey"),
       I("write", "NitridingCert"), I("write", "AppKeys"),
       I("Unlock", "recv") >>

getProgram ==
    << I("RLock", "recv"), I("read", "NitridingKey"),
       I("read", "NitridingCert"), I("read", "AppKeys"),
       I("RUnlock", "recv") >>

getAppKeysProgram ==
    << I("RLock", "recv"), I("read", "AppKeys"), I("RUnlock", "recv") >>

Program(method) ==
    CASE method = "equal" -> equalProgram
      [] method = "setAppKeys" -> setAppKeysProgram
      [] method = "setNitridingKeys" -> setNitridingKeysProgram
      [] method = "set" -> setProgram
      [] method = "get" -> getProgram
      [] OTHER -> getAppKeysProgram

\* How many goroutines call into the stores, and how many calls they make
\* in all.
NProcs == 2

MaxCalls == 2

Procs == 1..NProcs

Stores == {"a", "b"}

\* A call: the method, its receiver, the other store of equal and the
\* values a setter is given (a setter takes the fields it sets from arg).
Call(method, recv, other, arg) ==
    [method |-> method, recv |-> recv, other |-> other, arg |-> arg]

NoCall == Call("none", "a", "a", EmptyKeys)

KeyC == Bundle(Bytes(<<6>>), Bytes(<<7>>), Bytes(<<>>))

KeyCalls ==
    { Call(m, s, s, EmptyKeys) : m \in {"get", "getAppKeys"}, s \in Stores }
    \cup { Call("equal", s, t, EmptyKeys) : s \in Stores, t \in Stores }
    \cup { Call("set", s, s, KeyB) : s \in Stores }
    \cup { Call(m, s, s, KeyC) :
             m \in {"setAppKeys", "setNitridingKeys"}, s \in Stores }

VARIABLES
    store,      \* the three fields of each enclaveKeys
    rw,         \* each store's RWMutex
    call,       \* the call each goroutine is in
    pc,         \* the step of its method it is at
    wait,       \* "r" or "w" while it is blocked in RLock or Lock
    ret,        \* what its method has read so far
    calls,      \* the calls made so far
    lastSetter  \* per store, the setter that was the last to finish

keysVars == <<store, rw, call, pc, wait, ret, calls, lastSetter>>

NoRet == [keys |-> EmptyKeys, eq |-> FALSE]

\* An unlocked RWMutex: no writer (0), no reader holds it.
Unlocked == [writer |-> 0, readerWait |-> 0, holds |-> [p \in Procs |-> 0]]

KeysInit ==
    /\ store \in {[s \in Stores |-> k] : k \in {KeyA, KeyB}}
    /\ rw = [s \in Stores |-> Unlocked]
    /\ call = [p \in Procs |-> NoCall]
    /\ pc = [p \in Procs |-> 1]
    /\ wait = [p \in Procs |-> ""]
    /\ ret = [p \in Procs |-> NoRet]
    /\ calls = 0
    /\ lastSetter = [s \in Stores |-> NoCall]

RECURSIVE Sum(_, _)
Sum(f, S) ==
    IF S = {} THEN 0
    ELSE LET x == CHOOSE y \in S : TRUE IN f[x] + Sum(f, S \ {x})

InCall(p) == call[p].method # "none"

Returned(p) == InCall(p) /\ pc[p] > Len(Program(call[p].method))

\* The step goroutine p is at, and the store it is about.
Instr(p) == Program(call[p].method)[pc[p]]

Target(p) == IF Instr(p).x = "arg" THEN call[p].other ELSE call[p].recv

\* A goroutine enters a method.
Start(p, c) ==
    /\ ~InCall(p)
    /\ calls < MaxCalls
    /\ call' = [call EXCEPT ![p] = c]
    /\ calls' = calls + 1
    /\ UNCHANGED <<store, rw, pc, wait, ret, lastSetter>>

\* The method returns to its caller.
Return(p) ==
    /\ Returned(p)
    /\ call' = [call EXCEPT ![p] = NoCall]
    /\ pc' = [pc EXCEPT ![p] = 1]
    /\ ret' = [ret EXCEPT ![p] = NoRet]
    /\ UNCHANGED <<store, rw, wait, calls, lastSetter>>

\* RWMutex.RLock: a reader is held back while a writer holds the lock or
\* waits for it, and is let in otherwise.
RLock(p, s) ==
    /\ wait[p] = ""
    /\ IF rw[s].writer # 0
       THEN /\ wait' = [wait EXCEPT ![p] = "r"]
            /\ UNCHANGED <<rw, pc>>
       ELSE /\ rw' = [rw EXCEPT ![s].holds[p] = @ + 1]
            /\ pc' = [pc EXCEPT ![p] = @ + 1]
            /\ UNCHANGED wait
    /\ UNCHANGED <<store, call, ret, calls, lastSetter>>

\* RWMutex.RUnlock: the last reader a writer waits for wakes it.
RUnlock(p, s) ==
    /\ rw' = [rw EXCEPT ![s].holds[p] = @ - 1,
                        ![s].readerWait =
                            IF rw[s].writer # 0 /\ @ > 0 THEN @ - 1 ELSE @]
    /\ pc' = [pc EXCEPT ![p] = @ + 1]
    /\ UNCHANGED <<store, call, wait, ret, calls, lastSetter>>

\* RWMutex.Lock: one writer at a time announces itself, which holds back
\* the readers to come, and waits for the readers that hold the lock.
Lock(p, s) ==
    \/ /\ wait[p] = ""
       /\ rw[s].writer = 0
       /\ rw' = [rw EXCEPT ![s].writer = p,
                           ![s].readerWait = Sum(rw[s].holds, Procs)]
       /\ IF Sum(rw[s].holds, Procs) = 0
          THEN pc' = [pc EXCEPT ![p] = @ + 1] /\ UNCHANGED wait
          ELSE wait' = [wait EXCEPT ![p] = "w"] /\ UNCHANGED pc
       /\ UNCHANGED <<store, call, ret, calls, lastSetter>>
    \/ /\ wait[p] = "w"
       /\ rw[s].readerWait = 0
       /\ wait' = [wait EXCEPT ![p] = ""]
       /\ pc' = [pc EXCEPT ![p] = @ + 1]
       /\ UNCHANGED <<store, rw, call, ret, calls, lastSetter>>

\* The readers held back at store s.
HeldBack(s) ==
    { q \in Procs : InCall(q) /\ wait[q] = "r" /\ ~Returned(q)
                    /\ Target(q) = s }

\* RWMutex.Unlock: the readers held back are let in.
Unlock(p, s) ==
    /\ rw' = [rw EXCEPT ![s].writer = 0,
                        ![s].holds = [q \in Procs |->
                            IF q \in HeldBack(s) THEN @[q] + 1 ELSE @[q]]]
    /\ pc' = [q \in Procs |->
                IF q = p \/ q \in HeldBack(s) THEN pc[q] + 1 ELSE pc[q]]
    /\ wait' = [q \in Procs |-> IF q \in HeldBack(s) THEN "" ELSE wait[q]]
    /\ lastSetter' = [lastSetter EXCEPT ![s] = call[p]]
    /\ UNCHANGED <<store, call, ret, calls>>

\* e.<field> = <the value given>
Write(p, s, f) ==
    /\ store' = [store EXCEPT ![s][f] = call[p].arg[f]]
    /\ pc' = [pc EXCEPT ![p] = @ + 1]
    /\ UNCHANGED <<rw, call, wait, ret, calls, lastSetter>>

\* <field>: e.<field>, in the value returned
Read(p, s, f) ==
    /\ ret' = [ret EXCEPT ![p].keys[f] = store[s][f]]
    /\ pc' = [pc EXCEPT ![p] = @ + 1]
    /\ UNCHANGED <<store, rw, call, wait, calls, lastSetter>>

\* Lines 109-111: the comparison of equal.
Compare(p) ==
    /\ ret' = [ret EXCEPT
                 ![p].eq = equal(store[call[p].recv], store[call[p].other])]
    /\ pc' = [pc EXCEPT ![p] = @ + 1]
    /\ UNCHANGED <<store, rw, call, wait, calls, lastSetter>>

\* Goroutine p takes the next step of its method.
Step(p) ==
    /\ InCall(p)
    /\ ~Returned(p)
    /\ \/ Instr(p).op = "RLock" /\ RLock(p, Target(p))
       \/ Instr(p).op = "RUnlock" /\ RUnlock(p, Target(p))
       \/ Instr(p).op = "Lock" /\ Lock(p, Target(p))
       \/ Instr(p).op = "Unlock" /\ Unlock(p, Target(p))
       \/ Instr(p).op = "write" /\ Write(p, Target(p), Instr(p).x)
       \/ Instr(p).op = "read" /\ Read(p, Target(p), Instr(p).x)
       \/ Instr(p).op = "compare" /\ Compare(p)

(***************************************************************************)
(* The HTTP handlers of the key material and of the application's hash.    *)
(***************************************************************************)
\* A blank other than the newline, which strings.TrimSpace removes and the
\* Base64 decoder rejects.
SpaceChar == 67

IsSpace(c) == c \in {NewlineChar, SpaceChar}

RECURSIVE TrimLeft(_)
TrimLeft(s) ==
    IF s # <<>> /\ IsSpace(Head(s)) THEN TrimLeft(Tail(s)) ELSE s

RECURSIVE TrimRight(_)
TrimRight(s) ==
    IF s # <<>> /\ IsSpace(s[Len(s)])
    THEN TrimRight(SubSeq(s, 1, Len(s) - 1))
    ELSE s

\* strings.TrimSpace.
TrimSpace(s) == TrimRight(TrimLeft(s))

\* crypto/sha256.Size.
sha256Size == 32

maxKeyMaterialLen == 1024 * 1024

\* The bytes of a body: a text, character by character, or a run of len
\* bytes of one value where only the length and the value matter.
Text(s) == [kind |-> "text", s |-> s, len |-> Len(s), fill |-> 0]

Run(n, v) == [kind |-> "run", s |-> <<>>, len |-> n, fill |-> v]

\* The first n bytes of d.
Take(d, n) ==
    IF d.len <= n THEN d
    ELSE IF d.kind = "text" THEN Text(SubSeq(d.s, 1, n))
    ELSE Run(n, d.fill)

\* A request body: the bytes the client delivers, and whether the transport
\* then fails instead of ending the body.
Stream(data, broken) == [data |-> data, broken |-> broken]

\* io.ReadAll(newLimitReader(body, limit)): [body, err].  The reader gives
\* errTooMuchToRead for a body of more than limit bytes.
readAll(stream, limit) ==
    IF stream.data.len > limit
    THEN [body |-> Take(stream.data, limit), err |-> "errTooMuchToRead"]
    ELSE IF stream.broken
    THEN [body |-> stream.data, err |-> "errRead"]
    ELSE [body |-> stream.data, err |-> "nil"]

\* The key material of an enclave that has none.
NoKeyMaterial == [kind |-> "nil", s |-> <<>>, len |-> 0, fill |-> 0]

\* Enclave.KeyMaterial: [v, err].
KeyMaterial(km) ==
    IF km = NoKeyMaterial
    THEN [v |-> NoKeyMaterial, err |-> "errNoKeyMaterial"]
    ELSE [v |-> km, err |-> "nil"]

\* Enclave.SetKeyMaterial: the key material afterwards.
SetKeyMaterial(km, v) == v

VARIABLES
    keyMaterial,  \* the enclave's key material, NoKeyMaterial at start
    appKeyHash,   \* e.hashes.appKeyHash
    everSet,      \* SetKeyMaterial has been called
    lastSet,      \* the value of the most recent SetKeyMaterial
    ready,        \* the channel e.ready: "open" or "closed"
    signalled,    \* readyHandler has been invoked
    hlast         \* the last request or call and its outcome

httpVars ==
    <<keyMaterial, appKeyHash, everSet, lastSet, ready, signalled, hlast>>

\* The status a client sees: that of the first WriteHeader.
Header(written, status) == IF written = NoStatus THEN status ELSE written

HttpInit ==
    /\ keyMaterial = NoKeyMaterial
    /\ appKeyHash = Fill(sha256Size, 0)
    /\ everSet = FALSE
    /\ lastSet = NoKeyMaterial
    /\ ready = "open"
    /\ signalled = FALSE
    /\ hlast = [op |-> "init"]

\* A direct call of Enclave.KeyMaterial.
CallKeyMaterial ==
    /\ hlast' = [op |-> "KeyMaterial", res |-> KeyMaterial(keyMaterial)]
    /\ UNCHANGED <<keyMaterial, appKeyHash, everSet, lastSet, ready,
                 signalled>>

\* A direct call of Enclave.SetKeyMaterial.
CallSetKeyMaterial(v) ==
    /\ keyMaterial' = SetKeyMaterial(keyMaterial, v)
    /\ everSet' = TRUE
    /\ lastSet' = v
    /\ hlast' = [op |-> "SetKeyMaterial", v |-> v]
    /\ UNCHANGED <<appKeyHash, ready, signalled>>

\* getStateHandler answering 200 with whatever the key material is.
GetStateAnswerUnchecked(r) ==
    [status |-> StatusOK, body |-> r.v, error |-> ""]

\* What getStateHandler answers with KeyMaterial's result r.
GetStateAnswer(r) ==
    IF r.err # "nil"
    THEN [status |-> StatusInternalServerError, body |-> NoKeyMaterial,
          error |-> "errFailedGetState"]
    ELSE [status |-> StatusOK, body |-> r.v, error |-> ""]

getStateHandler ==
    /\ hlast' = [op |-> "getState",
                 resp |-> GetStateAnswer(KeyMaterial(keyMaterial))]
    /\ UNCHANGED <<keyMaterial, appKeyHash, everSet, lastSet, ready,
                 signalled>>

PutRefused(stream, r) ==
    /\ hlast' = [op |-> "putState", stream |-> stream, read |-> r,
                 set |-> FALSE, before |-> keyMaterial,
                 resp |-> [status |-> StatusInternalServerError,
                           error |-> "errFailedReqBody"]]
    /\ UNCHANGED <<keyMaterial, appKeyHash, everSet, lastSet, ready,
                   signalled>>

PutDone(stream, r) ==
    /\ keyMaterial' = SetKeyMaterial(keyMaterial, r.body)
    /\ everSet' = TRUE
    /\ lastSet' = r.body
    /\ hlast' = [op |-> "putState", stream |-> stream, read |-> r,
                 set |-> TRUE, before |-> keyMaterial,
                 resp |-> [status |-> StatusOK, error |-> ""]]
    /\ UNCHANGED <<appKeyHash, ready, signalled>>

\* putStateHandler installing whatever was read, error or not.
PutAlways(stream, r) == PutDone(stream, r)

PutAfterRead(stream, r) ==
    IF r.err # "nil" THEN PutRefused(stream, r) ELSE PutDone(stream, r)

putStateHandler(stream) ==
    PutAfterRead(stream, readAll(stream, maxKeyMaterialLen))

\* The end of a hashHandler request: the status the client sees, the errors
\* written, and whether the hash was copied.
HashRecord(stream, r, status, errors, copied, before) ==
    [op |-> "hash", stream |-> stream, read |-> r, status |-> status,
     errors |-> errors, copied |-> copied, before |-> before]

HashKept(stream, r, status, errors) ==
    /\ hlast' = HashRecord(stream, r, status, errors, FALSE, appKeyHash)
    /\ UNCHANGED <<keyMaterial, appKeyHash, everSet, lastSet, ready,
                 signalled>>

HashCopied(stream, r, status, errors, keyHash) ==
    /\ appKeyHash' = keyHash
    /\ hlast' = HashRecord(stream, r, status, errors, TRUE, appKeyHash)
    /\ UNCHANGED <<keyMaterial, everSet, lastSet, ready, signalled>>

\* hashHandler from the decoding on: written is the status written so far
\* and errors the error texts written so far.
HashDecoded(stream, r, written, errors, d) ==
    IF ~d.ok
    THEN HashKept(stream, r, Header(written, StatusBadRequest),
                  Append(errors, "errNoBase64"))
    ELSE IF Len(d.b) # sha256Size
    THEN HashKept(stream, r, Header(written, StatusBadRequest),
                  Append(errors, "errHashWrongSize"))
    ELSE HashCopied(stream, r, Header(written, StatusOK), errors, d.b)

HashAfterRead(stream, r) ==
    IF r.err = "errTooMuchToRead"
    THEN HashKept(stream, r, StatusBadRequest, <<"errTooMuchToRead">>)
    ELSE IF r.err # "nil"
    THEN HashDecoded(stream, r, StatusInternalServerError,
                     <<"errFailedReqBody">>,
                     B64Decode(TrimSpace(r.body.s)))
    ELSE HashDecoded(stream, r, NoStatus, <<>>,
                     B64Decode(TrimSpace(r.body.s)))

hashHandler(stream) ==
    HashAfterRead(stream, readAll(stream, EncodedLen(sha256Size) + 1))

\* close(ch): the channel afterwards; closing a closed channel panics.
close(ch) ==
    IF ch = "open" THEN [ch |-> "closed", panic |-> FALSE]
    ELSE [ch |-> ch, panic |-> TRUE]

\* Lines 175-176, c what close(e.ready) did: a panic leaves the request
\* without a status.
ReadyDone(c) ==
    /\ ready' = c.ch
    /\ signalled' = TRUE
    /\ hlast' = [op |-> "ready", before |-> ready,
                 status |-> IF c.panic THEN NoStatus ELSE StatusOK]
    /\ UNCHANGED <<keyMaterial, appKeyHash, everSet, lastSet>>

\* The channel is touched by close alone, which is atomic: concurrent
\* requests are requests in the order of their close.
readyHandler == ReadyDone(close(ready))

\* The requests and calls the handlers are run with.
Hash(v) == Fill(sha256Size, v)

HashTexts ==
    {B64Encode(Hash(1)), B64Encode(Hash(2)),
     B64Encode(Hash(1)) \o <<NewlineChar>>,
     <<SpaceChar>> \o B64Encode(Hash(2)),
     B64Encode(Hash(1)) \o <<NewlineChar, NewlineChar>>,
     B64Encode(Fill(sha256Size - 1, 1)),
     B64Encode(Fill(sha256Size + 1, 1)),
     SubSeq(B64Encode(Hash(2)), 1, EncodedLen(sha256Size) - 1),
     <<BadChar, 0, 0, 0>>,
     <<>>}

HashStreams == {Stream(Text(t), b) : t \in HashTexts, b \in BOOLEAN}

PutBodies ==
    {Run(0, 0)} \cup {Run(n, v) : n \in {1, maxKeyMaterialLen,
                                         maxKeyMaterialLen + 1},
                                  v \in {1, 2}}

PutStreams == {Stream(d, b) : d \in PutBodies, b \in BOOLEAN}

SetValues == {Run(0, 0), Run(1, 1), Run(1, 2)}

(***************************************************************************)
(* verifyAttstn under concurrent callers.  A call touches nothing shared   *)
(* but the nonce cache, and the cache only in its one call of isOurNonce   *)
(* (src/attester.go, lines 68, 80 and 156): what precedes and follows is   *)
(* local to the goroutine.                                                 *)
(***************************************************************************)
\* How many goroutines verify side by side.
NVerifiers == 2

Verifiers == 1..NVerifiers

\* The documents they verify: a worker's and a leader's for every nonce,
\* and one that is rejected before the nonce is looked at.
ConcurrentDocs(impl) ==
    { createAttstn(impl, WorkerAux(n, m, Bytes(<<7, 8>>), FALSE), "ok").doc :
          n \in Nonces, m \in Nonces }
    \cup { createAttstn(impl, LeaderAux(n, Wire(KeyA), FALSE), "ok").doc :
               n \in Nonces }
    \cup { Garbage }

VARIABLES
    vpc,    \* where each goroutine is: "idle", "called", "asked", "returned"
    vdoc,   \* the document it verifies
    vres    \* what its verifyAttstn returns

verVars == <<vpc, vdoc, vres>>

NotRun == Outcome(NoAux, "not run", <<>>, {})

VerInit ==
    /\ vpc = [p \in Verifiers |-> "idle"]
    /\ vdoc = [p \in Verifiers |-> Garbage]
    /\ vres = [p \in Verifiers |-> NotRun]

\* A goroutine calls verifyAttstn(doc, isOurNonce).
VCall(p, doc) ==
    /\ vpc[p] = "idle"
    /\ vpc' = [vpc EXCEPT ![p] = "called"]
    /\ vdoc' = [vdoc EXCEPT ![p] = doc]
    /\ UNCHANGED <<vres, attVars>>

\* VAsked with the nonce left in the cache.
VAskedKeep(p, r) ==
    /\ vpc' = [vpc EXCEPT ![p] = "asked"]
    /\ vres' = [vres EXCEPT ![p] = r]
    /\ UNCHANGED <<vdoc, attVars>>

\* The call gets as far as isOurNonce, which answers and consumes in one
\* step, or fails before: r is what the call will return.
VAsked(p, r) ==
    /\ vpc' = [vpc EXCEPT ![p] = "asked"]
    /\ vres' = [vres EXCEPT ![p] = r]
    /\ cache' = r.cache
    /\ UNCHANGED <<vdoc, att, issued, accepts, keys, last>>

VAsk(p) ==
    /\ vpc[p] = "called"
    /\ VAsked(p, verifyAttstn(att, vdoc[p], cache, PCRsOK))

\* The call returns.
VReturn(p) ==
    /\ vpc[p] = "asked"
    /\ vpc' = [vpc EXCEPT ![p] = "returned"]
    /\ UNCHANGED <<vdoc, vres, attVars>>

(***************************************************************************)
(* hashHandler beside attestationHandler (src/handlers.go, lines 135-160   *)
(* and 195-227).  The two run in goroutines of their own and share         *)
(* e.hashes: hashHandler writes appKeyHash with copy and                   *)
(* attestationHandler reads it in hashes.Serialize(), neither under a      *)
(* lock.  The race is modelled as what a build can make of it: the hash is *)
(* written and read in pieces, in any order.                               *)
(***************************************************************************)
\* In how many pieces a hash is written and read.
HashChunks == 2

Chunks == 1..HashChunks

\* The indices of the bytes of piece i.
ChunkOf(i) ==
    (((i - 1) * sha256Size) \div HashChunks + 1)..((i * sha256Size)
                                                      \div HashChunks)

\* dst with the bytes of piece i taken from src.
CopyChunk(dst, src, i) ==
    [j \in 1..sha256Size |-> IF j \in ChunkOf(i) THEN src[j] ELSE dst[j]]

StatusServiceUnavailable == 503

\* A hexadecimal text has the digits 0..15, written 0-9 and a-f, and the
\* capitals A-F, 16..21; every other character is no digit.
ToLower(s) == [i \in 1..Len(s) |-> IF s[i] \in 16..21 THEN s[i] - 6 ELSE s[i]]

\* hex.DecodeString: [ok, b].
HexDecode(s) ==
    IF Len(s) % 2 # 0 \/ \E i \in 1..Len(s) : s[i] \notin 0..15
    THEN [ok |-> FALSE, b |-> <<>>]
    ELSE [ok |-> TRUE,
          b |-> [i \in 1..(Len(s) \div 2) |-> 16 * s[2 * i - 1] + s[2 * i]]]

\* e.hashes.tlsKeyHash, which no handler here writes.
tlsKeyHash == Fill(sha256Size, 9)

\* AttestationHashes.Serialize: the two hashes one after the other.
Serialize(tls, app) == tls \o app

\* An attestation request: whether its form parses, and its 'nonce'
\* parameter, <<>> when it has none.
AttestRequest(form, nonce) == [form |-> form, nonce |-> nonce]

AttestRequests ==
    { AttestRequest("bad", <<1, 16>>) }
    \cup { AttestRequest("ok", n) :
               n \in { <<>>, <<1, 16>>, <<1>>, <<BadChar, 0>> } }

\* The bodies hashHandler is asked to register here.
RacingStreams ==
    { Stream(Text(t), b) :
          t \in {B64Encode(Hash(1)), B64Encode(Hash(2)),
                 <<BadChar, 0, 0, 0>>,
                 B64Encode(Hash(1)) \o <<NewlineChar, NewlineChar>>},
          b \in BOOLEAN }

VARIABLES
    useProfiling,  \* the flag attestationHandler was made with
    copying,       \* hashHandler's copy in progress: the hash and the
                   \* pieces written
    reading,       \* attestationHandler's Serialize in progress: the
                   \* nonce, the pieces read and the bytes read
    whole          \* the initial hash and every hash a request registers

hashVars == <<useProfiling, copying, reading, whole>>

NoCopy ==
    [active |-> FALSE, keyHash |-> Fill(sha256Size, 0), done |-> {},
     status |-> NoStatus]

NoRead ==
    [active |-> FALSE, rawNonce |-> <<>>, done |-> {},
     buf |-> Fill(sha256Size, 0)]

HashInit ==
    /\ useProfiling \in BOOLEAN
    /\ copying = NoCopy
    /\ reading = NoRead
    /\ whole = {Fill(sha256Size, 0)}

\* Lines 148-158 of a request, written the status written so far and d
\* the decoding of the body: the request is refused or reaches the copy.
HashBegun(written, d) ==
    IF ~d.ok \/ Len(d.b) # sha256Size
    THEN /\ hlast' = [op |-> "hash",
                      status |-> Header(written, StatusBadRequest)]
         /\ UNCHANGED <<appKeyHash, hashVars>>
    ELSE /\ copying' = [active |-> TRUE, keyHash |-> d.b, done |-> {},
                        status |-> Header(written, StatusOK)]
         /\ whole' = whole \cup {d.b}
         /\ UNCHANGED <<hlast, appKeyHash, useProfiling, reading>>

\* Lines 140-146, r what was read of the body.
HashRead(r) ==
    IF r.err = "errTooMuchToRead"
    THEN /\ hlast' = [op |-> "hash", status |-> StatusBadRequest]
         /\ UNCHANGED <<appKeyHash, hashVars>>
    ELSE IF r.err # "nil"
    THEN HashBegun(StatusInternalServerError, B64Decode(TrimSpace(r.body.s)))
    ELSE HashBegun(NoStatus, B64Decode(TrimSpace(r.body.s)))

HashBegin(stream) ==
    /\ ~copying.active
    /\ HashRead(readAll(stream, EncodedLen(sha256Size) + 1))

\* Line 158, one piece of the copy.
HashCopyChunk(i) ==
    /\ copying.active
    /\ i \in Chunks \ copying.done
    /\ appKeyHash' = CopyChunk(appKeyHash, copying.keyHash, i)
    /\ copying' = [copying EXCEPT !.done = @ \cup {i}]
    /\ UNCHANGED <<hlast, useProfiling, reading, whole>>

\* The copy is through and the handler returns.
HashEnd ==
    /\ copying.active
    /\ copying.done = Chunks
    /\ copying' = NoCopy
    /\ hlast' = [op |-> "hash", status |-> copying.status]
    /\ UNCHANGED <<appKeyHash, useProfiling, reading, whole>>

AttestRefused(status, error) ==
    /\ hlast' = [op |-> "attestation", status |-> status, error |-> error]
    /\ UNCHANGED <<appKeyHash, hashVars>>

\* Lines 206-217, rawNonce what hex.DecodeString made of the nonce.
AttestDecoded(req, rawNonce) ==
    IF req.nonce = <<>> THEN AttestRefused(StatusBadRequest, "errNoNonce")
    ELSE IF ~rawNonce.ok
    THEN AttestRefused(StatusBadRequest, "errBadNonceFormat")
    ELSE /\ reading' = [active |-> TRUE, rawNonce |-> rawNonce.b,
                        done |-> {}, buf |-> Fill(sha256Size, 0)]
         /\ UNCHANGED <<hlast, appKeyHash, useProfiling, copying, whole>>

\* Lines 197-217: the request is refused or gets as far as line 219.
AttestBegin(req) ==
    /\ ~reading.active
    /\ IF useProfiling
       THEN AttestRefused(StatusServiceUnavailable, "errProfilingSet")
       ELSE IF req.form # "ok"
       THEN AttestRefused(StatusBadRequest, "errBadForm")
       ELSE AttestDecoded(req, HexDecode(ToLower(req.nonce)))

\* hashes.Serialize() of line 219, one piece of appKeyHash.
AttestReadChunk(i) ==
    /\ reading.active
    /\ i \in Chunks \ reading.done
    /\ reading' = [reading EXCEPT !.done = @ \cup {i},
                                  !.buf = CopyChunk(@, appKeyHash, i)]
    /\ UNCHANGED <<hlast, appKeyHash, useProfiling, copying, whole>>

\* Lines 219-225, r what attest returns.
AttestAnswered(r) ==
    /\ reading' = NoRead
    /\ hlast' = IF r.err # ""
                THEN [op |-> "attestation",
                      status |-> StatusInternalServerError,
                      error |-> "errFailedAttestation"]
                ELSE [op |-> "attestation", status |-> StatusOK,
                      doc |-> r.doc]
    /\ UNCHANGED <<appKeyHash, useProfiling, copying, whole>>

AttestEnd(nsm) ==
    /\ reading.active
    /\ reading.done = Chunks
    /\ AttestAnswered(Attest(nsm, Bytes(reading.rawNonce),
                             Bytes(Serialize(tlsKeyHash, reading.buf)),
                             NilBytes))

(***************************************************************************)
(* The specifications.  Each runs one part of the program and leaves the   *)
(* state of the others as it is at start.                                  *)
(***************************************************************************)
vars == <<attVars, keysVars, httpVars, verVars, hashVars>>

Init ==
    AttInit /\ KeysInit /\ HttpInit /\ VerInit /\ HashInit /\ ~useProfiling
    /\ store = [s \in Stores |-> KeyA]

Next ==
    \/ \E n \in Nonces : Issue(n) /\ UNCHANGED <<keysVars, httpVars, verVars, hashVars>>
    \/ \E t \in NonceTexts : Evict(t) /\ UNCHANGED <<keysVars, httpVars, verVars, hashVars>>
    \/ \E i \in CreateInputs(att) :
          Create(i[1], i[2]) /\ UNCHANGED <<keysVars, httpVars, verVars, hashVars>>
    \/ \E i \in VerifyInputs(att) :
          Verify(i[1], i[2]) /\ UNCHANGED <<keysVars, httpVars, verVars, hashVars>>
    \/ \E req \in SyncInputs(att) :
          reqSyncHandler(req) /\ UNCHANGED <<keysVars, httpVars, verVars, hashVars>>

\* The attesters and the key synchronisation.
Spec == Init /\ [][Next]_vars

InitKeys ==
    KeysInit /\ AttInit /\ HttpInit /\ VerInit /\ HashInit /\ ~useProfiling
    /\ att = "dummy"
    /\ keys = EmptyKeys

NextKeys ==
    \/ \E p \in Procs, c \in KeyCalls :
          Start(p, c) /\ UNCHANGED <<attVars, httpVars, verVars, hashVars>>
    \/ \E p \in Procs : Step(p) /\ UNCHANGED <<attVars, httpVars, verVars, hashVars>>
    \/ \E p \in Procs : Return(p) /\ UNCHANGED <<attVars, httpVars, verVars, hashVars>>

\* The key store under concurrent callers.
SpecKeys == InitKeys /\ [][NextKeys]_vars

\* The same, every goroutine that can take a step taking one in the end.
FairSpecKeys ==
    SpecKeys /\ \A p \in Procs :
                   WF_vars((Step(p) \/ Return(p))
                           /\ UNCHANGED <<attVars, httpVars, verVars, hashVars>>)

InitHttp ==
    HttpInit /\ KeysInit /\ AttInit /\ VerInit /\ HashInit /\ ~useProfiling
    /\ att = "dummy"
    /\ keys = EmptyKeys
    /\ store = [s \in Stores |-> KeyA]

NextHttp ==
    \/ CallKeyMaterial /\ UNCHANGED <<attVars, keysVars, verVars, hashVars>>
    \/ \E v \in SetValues :
          CallSetKeyMaterial(v) /\ UNCHANGED <<attVars, keysVars, verVars, hashVars>>
    \/ getStateHandler /\ UNCHANGED <<attVars, keysVars, verVars, hashVars>>
    \/ \E stream \in PutStreams :
          putStateHandler(stream) /\ UNCHANGED <<attVars, keysVars, verVars, hashVars>>
    \/ \E stream \in HashStreams :
          hashHandler(stream) /\ UNCHANGED <<attVars, keysVars, verVars, hashVars>>
    \/ readyHandler /\ UNCHANGED <<attVars, keysVars, verVars, hashVars>>

\* The handlers of the key material and of the application's hash.
SpecHttp == InitHttp /\ [][NextHttp]_vars

\* Every nonce has been issued and is outstanding.
InitVerify ==
    /\ VerInit /\ KeysInit /\ HttpInit /\ HashInit /\ ~useProfiling
    /\ store = [s \in Stores |-> KeyA]
    /\ att \in {"dummy", "nitro"}
    /\ cache = NonceTexts
    /\ issued = Nonces
    /\ accepts = [t \in NonceTexts |-> 0]
    /\ keys = EmptyKeys
    /\ last = [op |-> "init"]

NextVerify ==
    \/ \E p \in Verifiers, doc \in ConcurrentDocs(att) :
          VCall(p, doc) /\ UNCHANGED <<keysVars, httpVars, hashVars>>
    \/ \E p \in Verifiers : VAsk(p) /\ UNCHANGED <<keysVars, httpVars, hashVars>>
    \/ \E p \in Verifiers : VReturn(p) /\ UNCHANGED <<keysVars, httpVars, hashVars>>

\* Verifications side by side on one nonce cache.
SpecVerify == InitVerify /\ [][NextVerify]_vars

InitHash ==
    HashInit /\ HttpInit /\ KeysInit /\ AttInit /\ VerInit /\ att = "nitro"
    /\ keys = EmptyKeys /\ store = [s \in Stores |-> KeyA]

HashOthers ==
    <<attVars, keysVars, verVars, keyMaterial, everSet, lastSet, ready,
      signalled>>

NextHash ==
    \/ \E stream \in RacingStreams :
          HashBegin(stream) /\ UNCHANGED HashOthers
    \/ \E i \in Chunks : HashCopyChunk(i) /\ UNCHANGED HashOthers
    \/ HashEnd /\ UNCHANGED HashOthers
    \/ \E req \in AttestRequests :
          AttestBegin(req) /\ UNCHANGED HashOthers
    \/ \E i \in Chunks : AttestReadChunk(i) /\ UNCHANGED HashOthers
    \/ \E nsm \in {"ok", "send"} : AttestEnd(nsm) /\ UNCHANGED HashOthers

\* hashHandler and attestationHandler side by side.
SpecHash == InitHash /\ [][NextHash]_vars

(***************************************************************************)
(* Properties of the attesters and of the key synchronisation.             *)
(***************************************************************************)
\* The verification the last operation ran, if it ran one.
Ran == last.op = "verify" \/ (last.op = "sync" /\ last.res.err # "not run")

Accepted == Ran /\ last.res.err = "" /\ ~last.res.panic

IssuedTexts == { B64(n) : n \in issued }

\* C1: under both attesters verifyAttstn returns an error and no auxInfo
\* whenever isOurNonce answers false for the nonce it is asked about; with
\* the consuming predicate no nonce, hence no document, is accepted twice,
\* and what is accepted carries a nonce that was issued.
C1_NonceChecked ==
    /\ (last.op = "verify" /\ last.res.asked # <<>>
          /\ last.res.asked[1] \notin last.before)
       => (last.res.err # "" /\ last.res.aux = NoAux)
    /\ \A t \in NonceTexts : accepts[t] <= 1
    /\ Accepted => (Len(last.res.asked) = 1
                    /\ last.res.asked[1] \in IssuedTexts)

\* A replay: a document whose nonce was consumed by an accepted
\* verification is presented again and rejected.
C1_Witness ==
    /\ last.op = "verify"
    /\ last.res.asked # <<>>
    /\ last.res.asked[1] \in NonceTexts
    /\ accepts[last.res.asked[1]] = 1
    /\ last.res.asked[1] \notin last.before
    /\ last.res.err # ""

\* The sync the last operation ran has failed: RequestKeys returned an error
\* or panicked, the verification failed, or what it recovered is no
\* leader's auxInfo.
SyncFailed ==
    /\ last.op = "sync"
    /\ last.called
    /\ \/ last.err # ""
       \/ last.panic
       \/ last.res.err # ""
       \/ last.res.aux.shape # "leader"

\* C2: a key synchronisation that fails at any step leaves NitridingKey,
\* NitridingCert and AppKeys as they were before it started, and the
\* handler does not answer 200: it answers 500 when RequestKeys returns an
\* error.
C2_FailedSyncKeepsKeys ==
    SyncFailed =>
        /\ keys = last.before
        /\ last.status # StatusOK
        /\ (last.err # "" => last.status = StatusInternalServerError)

\* A sync whose document was verified and rejected, the store holding keys.
C2_Witness ==
    /\ SyncFailed
    /\ last.res.err \notin {"", "not run"}
    /\ last.status = StatusInternalServerError
    /\ keys = KeyA

\* The nonce of a payload that the verifier issued: the leader's in a
\* worker's payload, the worker's in a leader's.
PartnerNonce(a) ==
    IF a.shape = "worker" THEN a.LeadersNonce ELSE a.WorkersNonce

\* The same shape and the same fields.
SameAux(x, a) ==
    /\ x.shape = a.shape
    /\ x.WorkersNonce = a.WorkersNonce
    /\ IF a.shape = "worker"
       THEN x.LeadersNonce = a.LeadersNonce /\ x.PublicKey = a.PublicKey
       ELSE x.EnclaveKeys = a.EnclaveKeys

\* C3: under the dummy attester, the document createAttstn makes of a valid
\* worker or leader auxInfo is verified without error, when the predicate
\* accepts the nonce issued, to an auxInfo of the same shape and fields.
C3_RoundTrip ==
    (last.op = "verify" /\ att = "dummy") =>
        \A a \in ValidAux :
            (last.doc = dummyCreateAttstn(a).doc
               /\ B64(PartnerNonce(a)) \in last.before)
            => (last.res.err = "" /\ SameAux(last.res.aux, a))

\* A worker's auxInfo with an empty, non-nil public key has made the trip.
C3_Witness ==
    /\ last.op = "verify"
    /\ att = "dummy"
    /\ last.doc = dummyCreateAttstn(
                      WorkerAux(Nonce(1), Nonce(1), Bytes(<<>>), FALSE)).doc
    /\ last.res.err = ""
    /\ last.res.aux.shape = "worker"

\* C4: nitroAttester.verifyAttstn returns an error and no auxInfo when the
\* document's PCRs differ from the verifier's or the verifier's cannot be
\* obtained, whatever the signature, the validity window and the nonce.
C4_PCRMismatchRejected ==
    (last.op = "verify" /\ att = "nitro" /\ last.doc.kind = "nitro"
       /\ (~last.pcr.ok \/ last.pcr.v # last.doc.PCRs))
    => (last.res.err # "" /\ last.res.aux = NoAux /\ ~last.res.panic)

\* A document of another image, signed, in its window and carrying an
\* outstanding nonce, is rejected.
C4_Witness ==
    /\ last.op = "verify"
    /\ att = "nitro"
    /\ last.doc.kind = "nitro"
    /\ last.doc.auth = "ok"
    /\ last.pcr.ok
    /\ last.doc.PCRs = OtherPCRs
    /\ B64Encode(last.doc.Nonce.b) \in last.before
    /\ last.res.err # ""
(***************************************************************************)
(* Properties of the key store.                                            *)
(***************************************************************************)
Fields == {"NitridingKey", "NitridingCert", "AppKeys"}

Setters == {"set", "setAppKeys", "setNitridingKeys"}

\* The index of the last step of a program that reads a field.
LastRead(prog) ==
    CHOOSE i \in 1..Len(prog) :
        /\ prog[i].op = "read"
        /\ \A j \in (i + 1)..Len(prog) : prog[j].op # "read"

\* get has read all it returns and has not returned yet.
ReadsDone(p) ==
    /\ call[p].method = "get"
    /\ pc[p] = LastRead(getProgram) + 1

\* Goroutine q is inside a setter of store s, between its Lock and the end
\* of its Unlock.
Writing(q, s) ==
    /\ call[q].method \in Setters
    /\ call[q].recv = s
    /\ pc[q] > 1
    /\ ~Returned(q)

\* C5: whatever the interleaving of set, setAppKeys, setNitridingKeys and
\* get, what get returns is the whole store as it is at one instant at
\* which no setter is between its writes.
C5_GetIsASnapshot ==
    \A p \in Procs :
        ReadsDone(p) =>
            /\ ret[p].keys = store[call[p].recv]
            /\ \A q \in Procs : ~Writing(q, call[p].recv)

\* A get has read the store while a setter of this store waits for it.
C5_Witness ==
    \E p \in Procs, q \in Procs :
        /\ ReadsDone(p)
        /\ call[q].method \in Setters
        /\ call[q].recv = call[p].recv
        /\ wait[q] = "w"

\* C6: under weak fairness every call of get, getAppKeys, set, setAppKeys,
\* setNitridingKeys and equal returns in the end, a.equal(a) and a.equal(b)
\* beside b.equal(a) with writers waiting included.
C6_EveryCallReturns == \A p \in Procs : InCall(p) ~> Returned(p)

\* equal has compared and has not returned yet.
CompareDone(p) == call[p].method = "equal" /\ pc[p] = 4

\* The three fields of two stores hold the same bytes.
ByteEqual(s, t) == \A f \in Fields : store[s][f].b = store[t][f].b

\* C7: with no writer at work, equal is reflexive and symmetric, and true
\* exactly when NitridingKey, NitridingCert and AppKeys are byte-equal.
C7_EqualIsByteEquality ==
    \A p \in Procs :
        (CompareDone(p)
           /\ \A q \in Procs : ~Writing(q, call[p].recv)
                               /\ ~Writing(q, call[p].other))
        => /\ ret[p].eq = ByteEqual(call[p].recv, call[p].other)
           /\ (call[p].recv = call[p].other => ret[p].eq)
           /\ \A q \in Procs :
                 (CompareDone(q) /\ call[q].recv = call[p].other
                    /\ call[q].other = call[p].recv)
                 => ret[q].eq = ret[p].eq

\* equal has found two stores different that differ in AppKeys alone.
C7_Witness ==
    \E p \in Procs :
        /\ CompareDone(p)
        /\ ~ret[p].eq
        /\ store[call[p].recv].NitridingKey = store[call[p].other].NitridingKey
        /\ store[call[p].recv].NitridingCert
              = store[call[p].other].NitridingCert
        /\ store[call[p].recv].AppKeys # store[call[p].other].AppKeys

\* C8: a get that follows set(B) with no setter in between returns B's
\* three fields, whatever the store held before.
C8_GetAfterSet ==
    \A p \in Procs :
        (ReadsDone(p) /\ lastSetter[call[p].recv].method = "set")
        => \A f \in Fields :
              BytesEqual(ret[p].keys[f], lastSetter[call[p].recv].arg[f])

\* A get has returned the bundle a set has put in place of another one.
C8_Witness ==
    \E p \in Procs :
        /\ ReadsDone(p)
        /\ lastSetter[call[p].recv].method = "set"
        /\ ret[p].keys = KeyB
        /\ calls = 2
(***************************************************************************)
(* The key store's deadlock, and properties of the handlers.               *)
(***************************************************************************)
\* An equal holds a read lock of a store and waits for a second one behind
\* a setter that waits for the first.
C6_Witness ==
    \E p \in Procs, q \in Procs :
        /\ call[p].method = "equal"
        /\ wait[p] = "r"
        /\ wait[q] = "w"
        /\ call[q].recv = call[p].other
        /\ rw[call[q].recv].holds[p] > 0

GoodHashRequest ==
    /\ hlast.read.err = "nil"
    /\ B64Decode(TrimSpace(hlast.read.body.s)).ok
    /\ Len(B64Decode(TrimSpace(hlast.read.body.s)).b) = sha256Size

\* C10: a hashHandler request answered with an error leaves the hash as it
\* was, and the hash is overwritten only by a request whose body was read
\* to its end without error and decodes to sha256.Size bytes.
C10_ErrorKeepsHash ==
    hlast.op = "hash" =>
        /\ hlast.status # StatusOK =>
              ~hlast.copied /\ appKeyHash = hlast.before
        /\ hlast.copied => GoodHashRequest

\* A request answered 500 has replaced the hash by another one.
C10_Witness ==
    /\ hlast.op = "hash"
    /\ hlast.status = StatusInternalServerError
    /\ hlast.copied
    /\ appKeyHash # hlast.before

C12_ReadyIsIdempotent ==
    /\ signalled => ready = "closed"
    /\ hlast.op = "ready" => hlast.status = StatusOK

\* readyHandler was invoked on an enclave that was ready and has panicked.
C12_Witness ==
    /\ hlast.op = "ready"
    /\ hlast.before = "closed"
    /\ hlast.status = NoStatus
    /\ ready = "closed"

\* C13: putStateHandler installs key material only when the body was read
\* to its end and has at most maxKeyMaterialLen bytes; for a longer body
\* or a read error it answers with an error status, does not call
\* SetKeyMaterial and leaves the key material as it was.
C13_PutInstallsWholeBodies ==
    hlast.op = "putState" =>
        /\ hlast.set =>
              /\ ~hlast.stream.broken
              /\ hlast.stream.data.len <= maxKeyMaterialLen
              /\ keyMaterial = hlast.stream.data
              /\ hlast.resp.status = StatusOK
        /\ (hlast.stream.broken \/ hlast.stream.data.len > maxKeyMaterialLen)
              => /\ hlast.resp.status = StatusInternalServerError
                 /\ ~hlast.set
                 /\ keyMaterial = hlast.before

\* A body of one byte too many was refused, the key material of an earlier
\* request staying in place.
C13_Witness ==
    /\ hlast.op = "putState"
    /\ hlast.stream.data.len = maxKeyMaterialLen + 1
    /\ ~hlast.stream.broken
    /\ hlast.resp.status = StatusInternalServerError
    /\ keyMaterial = Run(maxKeyMaterialLen, 1)

(***************************************************************************)
(* Properties of the two attesters side by side.                           *)
(***************************************************************************)
\* Two outcomes of verifyAttstn pass the same texts to isOurNonce and both
\* accept or both reject.
Agree(d, n) == d.asked = n.asked /\ (d.err = "") = (n.err = "")

\* What the dummy and the nitro attester make, the cache being c, of the
\* documents they create of the payload a.
DummyOf(a, c) == dummyVerifyAttstn(dummyCreateAttstn(a).doc, c)

NitroOf(a, c) == nitroVerifyAttstn(nitroCreateAttstn(a, "ok").doc, c, PCRsOK)

\* C14: for every worker or leader payload both attesters pass the same
\* text to isOurNonce, the Base64 form of the partner nonce (LeadersNonce
\* of a worker's payload, WorkersNonce of a leader's), and agree on
\* accepting or rejecting it.
C14_SameNonceChecked ==
    last.op = "verify" =>
        \A a \in ValidAux :
            last.doc = createAttstn(att, a, "ok").doc =>
                /\ last.res.asked = <<B64(PartnerNonce(a))>>
                /\ Agree(DummyOf(a, last.before), NitroOf(a, last.before))

\* The nitro attester has accepted a worker's payload whose partner nonce
\* was not outstanding, on the strength of the worker's own nonce.
C14_Witness ==
    /\ att = "nitro"
    /\ last.op = "verify"
    /\ last.res.err = ""
    /\ last.res.aux.shape = "worker"
    /\ B64(last.res.aux.LeadersNonce) \notin last.before
    /\ last.res.asked = <<B64(last.res.aux.WorkersNonce)>>
    /\ ~DummyOf(WorkerAux(last.res.aux.WorkersNonce,
                          last.res.aux.LeadersNonce,
                          last.res.aux.PublicKey, FALSE),
                last.before).err = ""

\* The document is authentic and in its validity window.
Authentic(doc) == doc.kind = "nitro" /\ doc.auth = "ok"

\* C15: nitroAttester.verifyAttstn checks authenticity and validity window,
\* then the PCRs, then the nonce: it invokes isOurNonce at most once and
\* only after the first two checks have succeeded, so that a document that
\* fails one of them leaves every outstanding nonce in the cache.
C15_NonceCheckedLast ==
    (last.op = "verify" /\ att = "nitro") =>
        /\ Len(last.res.asked) <= 1
        /\ last.res.asked # <<>> =>
              /\ Authentic(last.doc)
              /\ last.pcr.ok
              /\ arePCRsIdentical(last.pcr.v, last.doc.PCRs)
        /\ last.res.asked = <<>> => cache = last.before
        /\ cache \subseteq last.before
        /\ last.before \ cache \subseteq
              { last.res.asked[i] : i \in 1..Len(last.res.asked) }

\* A document with a bad signature that carries an outstanding nonce was
\* rejected and the nonce is still outstanding.
C15_Witness ==
    /\ last.op = "verify"
    /\ att = "nitro"
    /\ last.doc.kind = "nitro"
    /\ last.doc.auth = "signature"
    /\ B64Encode(last.doc.Nonce.b) \in cache
    /\ last.res.err # ""

\* The worker test of line 67 passes on what the document decodes to.
PassesWorkerTest(doc) ==
    UnmarshalWorker(doc).ok /\ IsWorkerShape(UnmarshalWorker(doc).v)

\* The leader test of line 79 passes on what the document decodes to.
PassesLeaderTest(doc) ==
    UnmarshalLeader(doc).ok /\ IsLeaderShape(UnmarshalLeader(doc).v)

\* C16: exactly one shape decodes from a document: of a document that
\* dummyAttester.verifyAttstn accepts, the worker test and the leader test
\* do not both pass, and the shape returned is the one whose test passes,
\* the worker's being tried first.
C16_OneShapeDecodes ==
    (last.op = "verify" /\ att = "dummy" /\ last.res.err = "") =>
        /\ ~(PassesWorkerTest(last.doc) /\ PassesLeaderTest(last.doc))
        /\ last.res.aux.shape = "worker" <=> PassesWorkerTest(last.doc)
        /\ last.res.aux.shape = "leader" <=> PassesLeaderTest(last.doc)

\* A document with the members of both structs was accepted as a worker's
\* though it passes the leader test as well.
C16_Witness ==
    /\ last.op = "verify"
    /\ att = "dummy"
    /\ last.res.err = ""
    /\ last.res.aux.shape = "worker"
    /\ PassesWorkerTest(last.doc)
    /\ PassesLeaderTest(last.doc)
    /\ last.doc.enclave_keys # JAbsent

(***************************************************************************)
(* Properties of what verifyAttstn returns.                                *)
(***************************************************************************)
\* Every nonce of the auxInfo has nonceLen bytes, a worker's has a public
\* key and a leader's has enclave keys.
WellFormed(aux) ==
    /\ aux.shape \in {"worker", "leader"}
    /\ Len(aux.WorkersNonce) = nonceLen
    /\ IF aux.shape = "worker"
       THEN Len(aux.LeadersNonce) = nonceLen /\ ~aux.PublicKey.nil
       ELSE ~aux.EnclaveKeys.nil

\* C17: under both attesters every auxInfo that verifyAttstn returns
\* without error is well-formed, and a document whose fields are not is
\* rejected with an error: verifyAttstn neither returns it nor crashes.
C17_ResultsWellFormed ==
    last.op = "verify" =>
        /\ ~last.res.panic
        /\ last.res.err = "" => WellFormed(last.res.aux)

\* The nitro attester has returned, without error, a leader's auxInfo
\* whose enclave keys are nil.
C17_Witness ==
    /\ last.op = "verify"
    /\ att = "nitro"
    /\ last.res.err = ""
    /\ ~last.res.panic
    /\ last.res.aux.shape = "leader"
    /\ last.res.aux.EnclaveKeys.nil

\* The nitro attester has crashed on a document with a public key whose
\* user data is too short for a nonce.
NitroCrashed ==
    /\ last.op = "verify"
    /\ att = "nitro"
    /\ last.res.panic
    /\ ~last.doc.PublicKey.nil
    /\ Len(last.doc.UserData.b) < nonceLen

(***************************************************************************)
(* Properties of concurrent verifications.                                 *)
(***************************************************************************)
\* The call of goroutine p has passed isOurNonce.
HasAsked(p) == vpc[p] \in {"asked", "returned"} /\ vres[p].asked # <<>>

\* It returns an auxInfo.
ReturnsAux(p) == vres[p].err = "" /\ ~vres[p].panic

\* C18: of the concurrent calls of verifyAttstn that ask isOurNonce about
\* the same outstanding nonce, whatever their interleaving, at most one
\* returns an auxInfo and the others return an error.
C18_OneConsumer ==
    \A p \in Verifiers, q \in Verifiers :
        (p # q /\ HasAsked(p) /\ HasAsked(q) /\ vres[p].asked = vres[q].asked)
        => /\ ~(ReturnsAux(p) /\ ReturnsAux(q))
           /\ ReturnsAux(p) => vres[q].err # ""

\* Two calls in flight at once have asked about the same nonce: one was
\* given the auxInfo and the other the error of a nonce not in the cache.
C18_Witness ==
    \E p \in Verifiers, q \in Verifiers :
        /\ vpc[p] = "asked"
        /\ vpc[q] = "asked"
        /\ vres[p].asked = vres[q].asked
        /\ vres[p].asked # <<>>
        /\ ReturnsAux(p)
        /\ vres[q].err # ""
        /\ vres[q].aux = NoAux

(***************************************************************************)
(* Properties of nitroAttester.createAttstn.                               *)
(***************************************************************************)
\* The document the NSM device is asked for holds these three fields.
Requested(doc, nonce, userData, publicKey) ==
    /\ doc.kind = "nitro"
    /\ doc.Nonce = nonce
    /\ doc.UserData = userData
    /\ doc.PublicKey = publicKey

\* C20: nitroAttester.createAttstn rejects no argument for its shape: it
\* fails only when the NSM device does, and the document it requests holds
\* WorkersNonce, LeadersNonce and PublicKey of a workerAuxInfo value,
\* WorkersNonce and EnclaveKeys and no public key of a leaderAuxInfo
\* value, and three empty fields for anything else, the pointers that
\* verifyAttstn returns included.
C20_CreateTakesAnyShape ==
    (last.op = "create" /\ att = "nitro") =>
        /\ last.err = "" <=> last.nsm = "ok"
        /\ last.err = "" =>
              IF last.aux.shape = "worker" /\ ~last.aux.ptr
              THEN Requested(last.doc, Bytes(last.aux.WorkersNonce),
                             Bytes(last.aux.LeadersNonce), last.aux.PublicKey)
              ELSE IF last.aux.shape = "leader" /\ ~last.aux.ptr
              THEN Requested(last.doc, Bytes(last.aux.WorkersNonce),
                             last.aux.EnclaveKeys, NilBytes)
              ELSE Requested(last.doc, NilBytes, NilBytes, NilBytes)

\* A *workerAuxInfo was attested as a document with three empty fields.
C20_Witness ==
    /\ last.op = "create"
    /\ att = "nitro"
    /\ last.aux.shape = "worker"
    /\ last.aux.ptr
    /\ last.err = ""
    /\ Requested(last.doc, NilBytes, NilBytes, NilBytes)

(***************************************************************************)
(* Properties of hashHandler beside attestationHandler.                    *)
(***************************************************************************)
\* The application key hash in serialized hashes.
AppKeyHashOf(userData) == SubSeq(userData, sha256Size + 1, 2 * sha256Size)

Issued == hlast.op = "attestation" /\ hlast.status = StatusOK

\* C19: every attestation document attestationHandler issues binds an
\* application key hash registered as a whole by one hashHandler request,
\* or the initial one: its serialized hashes never mix the bytes of two
\* registered hashes.
C19_WholeHashAttested ==
    Issued => AppKeyHashOf(hlast.doc.UserData.b) \in whole

\* A document is issued whose application key hash is no registered hash.
C19_Witness ==
    /\ Issued
    /\ AppKeyHashOf(hlast.doc.UserData.b) \notin whole
    /\ \A j \in 1..sha256Size :
          \E h \in whole : AppKeyHashOf(hlast.doc.UserData.b)[j] = h[j]

=============================================================================
